---- MODULE Spec2Model ----
(***************************************************************************)
(* fit-dump: the reflection driven tree printer, the file-type selector    *)
(* and the run/main pipeline of fit-dump.go.  The source holds two copies  *)
(* of the program: the first (lines 1-312) asks for a String method before *)
(* it looks at the kind, the second (lines 314-617) looks at the kind      *)
(* first.  `variant` is 1 for the first copy and 2 for the second.         *)
(*                                                                         *)
(* Strings and field names are sequences of UTF-8 bytes.  Scalar values    *)
(* are little-endian byte sequences of the width of their kind, so that    *)
(* 64-bit sentinels and float bit patterns are exact.                      *)
(***************************************************************************)
EXTENDS Integers, Sequences, FiniteSets, TLC

VARIABLES
    variant,      \* 1: first copy of fit-dump.go, 2: second copy
    \* ---- tree printer harness
    val,          \* the reflect.Value handed to the printer
    name,         \* the name argument
    level,        \* the indent argument
    op,           \* "none", "dumpRecursive" or "dumpField": the call made
    out,          \* the printIndent calls the call made, in order
    \* ---- run / main
    pc,           \* position of main/run
    nargs,        \* flag.NArg()
    handle,       \* "none", "open", "closed": the *os.File f
    closes,       \* number of f.Close() calls
    staleUse,     \* TRUE once f was read while not open
    fitf,         \* the decoded *fit.File
    body,         \* the reflect.Value the selector produced
    calls,        \* the accessors called on fitf, in order
    err,          \* the error run returns
    ran,          \* the stages of run executed so far, in order
    stdout,       \* the lines written to standard output
    exitCode      \* -1 while running, else the argument of os.Exit

vars == <<variant, val, name, level, op, out, pc, nargs, handle, closes,
          staleUse, fitf, body, calls, err, ran, stdout, exitCode>>

printerVars == <<val, name, level, op, out>>
runVars == <<pc, nargs, handle, closes, staleUse, fitf, body, calls, err,
             ran, stdout, exitCode>>

-----------------------------------------------------------------------------
(* Bounds of the model *)

MaxFields == 2    \* fields of a generated struct
MaxElems == 2     \* elements of a generated slice or array
MaxLevel == 1     \* indent of the outermost call
MaxArgs == 2      \* positional arguments on the command line

-----------------------------------------------------------------------------
(* Byte strings *)

Invalid_ == <<73, 110, 118, 97, 108, 105, 100>>     \* "Invalid"
T_Ok == <<79, 107>>                                 \* "Ok"
T_XInvalid == <<88>> \o Invalid_                    \* "XInvalid"
T_Invalids == Invalid_ \o <<115>>                   \* "Invalids"

N_A == <<65>>                \* "A"
N_b == <<98>>                \* "b"
N_Eacute == <<195, 137>>     \* U+00C9, upper case, two bytes
N_eacute == <<195, 169>>     \* U+00E9, lower case, two bytes

\* strings.HasSuffix
HasSuffix(s, suffix) ==
    /\ Len(s) >= Len(suffix)
    /\ SubSeq(s, Len(s) - Len(suffix) + 1, Len(s)) = suffix

\* strconv of a non-negative int, as fmt's %d prints it
RECURSIVE Itoa(_)
Itoa(n) == IF n < 10 THEN <<48 + n>> ELSE Itoa(n \div 10) \o <<48 + (n % 10)>>

\* the index counted from one
elemNameOneBased(i) == <<91>> \o Itoa(i + 1) \o <<93>>

\* fmt.Sprintf("[%d]", i)
elemName(i) == <<91>> \o Itoa(i) \o <<93>>

-----------------------------------------------------------------------------
(* reflect.Value.  Every value is a record
     kind : the reflect.Kind
     bits : the little-endian bytes of a scalar (the bytes of a string)
     str  : what calling the String method of the value's type gives:
            m = "none" (the method set has no String), "text", or "panic"
     kids : <<[name, val]>>: the fields of a struct, the elements of a
            slice or array, the pointee of a non-nil pointer (none: nil)   *)

NoMethod == [m |-> "none", text |-> <<>>]
Text(t) == [m |-> "text", text |-> t]
Panics == [m |-> "panic", text |-> <<>>]

Scalar(k, b, s) == [kind |-> k, bits |-> b, str |-> s, kids |-> <<>>]
Kid(n, v) == [name |-> n, val |-> v]
Struct(fields, s) == [kind |-> "Struct", bits |-> <<>>, str |-> s, kids |-> fields]
NilPtr(s) == [kind |-> "Ptr", bits |-> <<>>, str |-> s, kids |-> <<>>]
PtrTo(v, s) == [kind |-> "Ptr", bits |-> <<>>, str |-> s, kids |-> <<Kid(<<>>, v)>>]
Seqn(k, elems, s) ==
    [kind |-> k, bits |-> <<>>, str |-> s,
     kids |-> [i \in 1..Len(elems) |-> Kid(<<>>, elems[i])]]
ZeroValue == [kind |-> "Invalid", bits |-> <<>>, str |-> NoMethod, kids |-> <<>>]

\* the Value read from an unexported struct field: calling a method on it,
\* or on anything reached from it, panics
RECURSIVE ReadOnly(_)
ReadOnly(v) ==
    [kind |-> v.kind, bits |-> v.bits,
     str |-> IF v.str.m = "none" THEN NoMethod ELSE Panics,
     kids |-> [i \in 1..Len(v.kids) |-> Kid(v.kids[i].name, ReadOnly(v.kids[i].val))]]

\* reflect.Indirect: the pointee of a pointer (the zero Value for nil),
\* any other value unchanged
Indirect(v) ==
    IF v.kind # "Ptr" THEN v
    ELSE IF v.kids = <<>> THEN ZeroValue
    ELSE v.kids[1].val

\* the bytes fmt prints for a value under %v: a scalar's own, a composite's
\* elements' in order
RECURSIVE ValueBytes(_)
RECURSIVE KidsBytes(_, _)
ValueBytes(v) == IF v.kids = <<>> THEN v.bits ELSE KidsBytes(v.kids, 1)
KidsBytes(kids, i) ==
    IF i > Len(kids) THEN <<>>
    ELSE ValueBytes(kids[i].val) \o KidsBytes(kids, i + 1)

-----------------------------------------------------------------------------
(* Output.  One record per printIndent call. *)

ArgNone == [kind |-> "none", bytes |-> <<>>]
ArgStr(t) == [kind |-> "string", bytes |-> t]
ArgInt(n) == [kind |-> "int", bytes |-> <<n>>]
ArgValue(v) == [kind |-> v.kind, bytes |-> ValueBytes(v)]

Line(l, f, n, a) == [level |-> l, format |-> f, name |-> n, arg |-> a]

\* printIndent(level, format, args...)
printIndent(l, f, n, a) == <<Line(l, f, n, a)>>

\* a run-time panic ends the output
PanicLine == Line(0, "panic", <<>>, ArgNone)
Panicked(o) == o # <<>> /\ o[Len(o)].format = "panic"
Cat(a, b) == IF Panicked(a) THEN a ELSE a \o b

-----------------------------------------------------------------------------
(* invalidValues: the per-kind sentinel predicates *)

Pad(bits, n, fill) == bits \o [i \in 1..(n - Len(bits)) |-> fill]

\* reflect.Value.Int(): the value sign-extended to int64
ValueInt(bits) == Pad(bits, 8, IF bits[Len(bits)] >= 128 THEN 255 ELSE 0)

\* reflect.Value.Uint(): the value zero-extended to uint64
ValueUint(bits) == Pad(bits, 8, 0)

AllOnes(n) == [i \in 1..n |-> 255]
Zeros(n) == [i \in 1..n |-> 0]
MaxSigned(n) == [i \in 1..n |-> IF i = n THEN 127 ELSE 255]

\* IEEE 754 binary32 and binary64 on bit patterns
IsNaN32(b) ==
    /\ b[4] % 128 = 127 /\ b[3] >= 128
    /\ (b[3] % 128 # 0 \/ b[2] # 0 \/ b[1] # 0)
IsZero32(b) == b[1] = 0 /\ b[2] = 0 /\ b[3] = 0 /\ b[4] % 128 = 0
IsNaN64(b) ==
    /\ b[8] % 128 = 127 /\ b[7] >= 240
    /\ (b[7] % 16 # 0 \/ \E i \in 1..6 : b[i] # 0)
IsZero64(b) == (\A i \in 1..7 : b[i] = 0) /\ b[8] % 128 = 0

\* the Go == on floats: a NaN equals nothing, the two zeros are equal
FloatEq32(a, b) ==
    /\ ~IsNaN32(a) /\ ~IsNaN32(b)
    /\ (a = b \/ (IsZero32(a) /\ IsZero32(b)))
FloatEq64(a, b) ==
    /\ ~IsNaN64(a) /\ ~IsNaN64(b)
    /\ (a = b \/ (IsZero64(a) /\ IsZero64(b)))

\* float32(v.Float()): widened to float64 and narrowed again; exact for a
\* number, a NaN comes back as a quiet NaN
Float32OfFloat(b) ==
    IF IsNaN32(b) THEN [b EXCEPT ![3] = IF (@ \div 64) % 2 = 1 THEN @ ELSE @ + 64]
    ELSE b

\* the kinds that have an entry in invalidValues
InvalidKinds ==
    {"Bool", "Int8", "Int16", "Int32", "Int64", "Uint8", "Uint16", "Uint32",
     "Uint64", "Float32", "Float64", "String"}

\* the table with the unsigned sentinel in the signed rows
invalidValuesUnsigned(kind, bits) ==
    CASE kind = "Bool"    -> bits = <<0>>
      [] kind = "Int8"    -> ValueUint(bits) = ValueUint(AllOnes(1))
      [] kind = "Int16"   -> ValueUint(bits) = ValueUint(AllOnes(2))
      [] kind = "Int32"   -> ValueUint(bits) = ValueUint(AllOnes(4))
      [] kind = "Int64"   -> ValueUint(bits) = ValueUint(AllOnes(8))
      [] kind = "Uint8"   -> ValueUint(bits) = ValueUint(AllOnes(1))
      [] kind = "Uint16"  -> ValueUint(bits) = ValueUint(AllOnes(2))
      [] kind = "Uint32"  -> ValueUint(bits) = ValueUint(AllOnes(4))
      [] kind = "Uint64"  -> ValueUint(bits) = ValueUint(AllOnes(8))
      [] kind = "Float32" -> FloatEq32(Float32OfFloat(bits), AllOnes(4))
      [] kind = "Float64" -> FloatEq64(bits, AllOnes(8))
      [] kind = "String"  -> bits = <<>>

invalidValues(kind, bits) ==
    CASE kind = "Bool"    -> bits = <<0>>                          \* == false
      [] kind = "Int8"    -> ValueInt(bits) = ValueUint(MaxSigned(1))        \* 0x7f
      [] kind = "Int16"   -> ValueInt(bits) = ValueUint(MaxSigned(2))        \* 0x7fff
      [] kind = "Int32"   -> ValueInt(bits) = ValueUint(MaxSigned(4))        \* 0x7fffffff
      [] kind = "Int64"   -> ValueInt(bits) = ValueUint(MaxSigned(8))        \* 0x7fffffffffffffff
      [] kind = "Uint8"   -> ValueUint(bits) = ValueUint(AllOnes(1))         \* 0xff
      [] kind = "Uint16"  -> ValueUint(bits) = ValueUint(AllOnes(2))         \* 0xffff
      [] kind = "Uint32"  -> ValueUint(bits) = ValueUint(AllOnes(4))         \* 0xffffffff
      [] kind = "Uint64"  -> ValueUint(bits) = ValueUint(AllOnes(8))         \* 0xffffffffffffffff
      [] kind = "Float32" -> FloatEq32(Float32OfFloat(bits), AllOnes(4))
      [] kind = "Float64" -> FloatEq64(bits, AllOnes(8))
      [] kind = "String"  -> bits = <<>>                           \* == ""

-----------------------------------------------------------------------------
(* dumpField.  The two copies differ only in how they ask for the String
   method (Value.MethodByName / Type().MethodByName); both panic on the
   zero Value. *)

dumpField(field, n, l) ==
    IF field.kind = "Invalid" THEN <<PanicLine>>
    ELSE IF field.str.m # "none" THEN
        IF field.str.m = "panic" THEN <<PanicLine>>
        ELSE IF HasSuffix(field.str.text, Invalid_) THEN <<>>
        ELSE printIndent(l, "%s: %s\n", n, ArgStr(field.str.text))
    ELSE IF field.kind \in InvalidKinds THEN
        IF invalidValues(field.kind, field.bits) THEN <<>>
        ELSE printIndent(l, "%s: %v\n", n, ArgValue(field))
    ELSE printIndent(l, "%s: %+v\n", n, ArgValue(field))

-----------------------------------------------------------------------------
(* exported (first copy) and the lower-case test (second copy) *)

RuneError == 65533

\* utf8.DecodeRune, for encodings of at most two bytes
DecodeRune(s) ==
    IF Len(s) = 0 THEN [r |-> RuneError, l |-> 0]
    ELSE IF s[1] < 128 THEN [r |-> s[1], l |-> 1]
    ELSE IF /\ s[1] >= 194 /\ s[1] <= 223
            /\ Len(s) >= 2 /\ s[2] >= 128 /\ s[2] <= 191
         THEN [r |-> (s[1] - 192) * 64 + (s[2] - 128), l |-> 2]
    ELSE [r |-> RuneError, l |-> 1]

\* unicode.IsUpper on U+0000..U+00FF
IsUpper(r) ==
    \/ (r >= 65 /\ r <= 90)
    \/ (r >= 192 /\ r <= 214)
    \/ (r >= 216 /\ r <= 222)

exportedPanics(n) == DecodeRune(n).r = RuneError /\ DecodeRune(n).l <= 1

exported(n) == IsUpper(DecodeRune(n).r)

\* strings.ToLower of a one-byte string: an ASCII letter is lowered, a byte
\* that is no UTF-8 encoding on its own becomes U+FFFD
ToLower1(s) ==
    IF s[1] < 128 THEN <<IF s[1] >= 65 /\ s[1] <= 90 THEN s[1] + 32 ELSE s[1]>>
    ELSE <<239, 191, 189>>

\* len(name) > 0 && strings.ToLower(name[:1]) == name[:1]
skipped2(n) == Len(n) > 0 /\ ToLower1(SubSeq(n, 1, 1)) = SubSeq(n, 1, 1)

-----------------------------------------------------------------------------
(* dumpRecursive, first copy: a value with a String method goes to
   dumpField whatever its kind *)

RECURSIVE dumpRecursive1(_, _, _)
RECURSIVE fields1(_, _, _)
RECURSIVE elems1(_, _, _)

dumpRecursive1(v, n, l) ==
    IF v.kind = "Invalid" THEN <<PanicLine>>      \* MethodByName on the zero Value
    ELSE IF v.str.m # "none" THEN dumpField(v, n, l)
    ELSE CASE v.kind = "Struct" ->
                Cat(printIndent(l, "%s:\n", n, ArgNone),
                    Cat(fields1(v.kids, 1, l + 1),
                        printIndent(l, "---\n", <<>>, ArgNone)))
           [] v.kind = "Ptr" ->
                IF v.kids = <<>> THEN <<>>
                ELSE dumpRecursive1(Indirect(v), n, l)
           [] v.kind = "Slice" ->
                IF Len(v.kids) = 0 THEN <<>>
                ELSE Cat(printIndent(l, "%s (%d elems):\n", n, ArgInt(Len(v.kids))),
                         elems1(v.kids, 1, l + 1))
           [] OTHER -> dumpField(v, n, l)

\* for i := 0; i < val.NumField(); i++
fields1(kids, i, l) ==
    IF i > Len(kids) THEN <<>>
    ELSE IF exportedPanics(kids[i].name) THEN <<PanicLine>>
    ELSE IF ~exported(kids[i].name) THEN fields1(kids, i + 1, l)
    ELSE Cat(dumpRecursive1(kids[i].val, kids[i].name, l),
             fields1(kids, i + 1, l))

\* for i := 0; i < val.Len(); i++
elems1(kids, i, l) ==
    IF i > Len(kids) THEN <<>>
    ELSE Cat(dumpRecursive1(Indirect(kids[i].val), elemName(i - 1), l),
             elems1(kids, i + 1, l))

-----------------------------------------------------------------------------
(* dumpRecursive, second copy: the kind decides first; only a struct is
   asked for a String method here, and its text is printed unconditionally *)

RECURSIVE dumpRecursive2(_, _, _)
RECURSIVE fields2(_, _, _)
RECURSIVE elems2(_, _, _)

dumpRecursive2(v, n, l) ==
    CASE v.kind = "Struct" ->
            IF v.str.m = "panic" THEN <<PanicLine>>
            ELSE IF v.str.m = "text"
                 THEN printIndent(l, "%s: %s\n", n, ArgStr(v.str.text))
            ELSE Cat(printIndent(l, "%s:\n", n, ArgNone),
                     fields2(v.kids, 1, l + 1))
      [] v.kind = "Ptr" ->
            IF v.kids = <<>> THEN <<>>
            ELSE dumpRecursive2(Indirect(v), n, l)
      [] v.kind = "Slice" ->
            IF Len(v.kids) = 0 THEN <<>>
            ELSE Cat(printIndent(l, "%s (%d elems):\n", n, ArgInt(Len(v.kids))),
                     elems2(v.kids, 1, l + 1))
      [] OTHER -> dumpField(v, n, l)

\* val.Field(i): read-only unless the field is exported
fieldValue(kid) ==
    IF IsUpper(DecodeRune(kid.name).r) THEN kid.val ELSE ReadOnly(kid.val)

fields2(kids, i, l) ==
    IF i > Len(kids) THEN <<>>
    ELSE IF skipped2(kids[i].name) THEN fields2(kids, i + 1, l)
    ELSE Cat(dumpRecursive2(fieldValue(kids[i]), kids[i].name, l),
             fields2(kids, i + 1, l))

elems2(kids, i, l) ==
    IF i > Len(kids) THEN <<>>
    ELSE Cat(dumpRecursive2(Indirect(kids[i].val), elemName(i - 1), l),
             elems2(kids, i + 1, l))

\* the dumpRecursive of the copy `c`
dumpRecursive(c, v, n, l) ==
    IF c = 1 THEN dumpRecursive1(v, n, l) ELSE dumpRecursive2(v, n, l)

-----------------------------------------------------------------------------
(* The values the printer is run on *)

Width(kind) ==
    CASE kind \in {"Bool", "Int8", "Uint8"} -> 1
      [] kind \in {"Int16", "Uint16"} -> 2
      [] kind \in {"Int32", "Uint32", "Float32"} -> 4
      [] OTHER -> 8

\* the value with bit i (0 = least significant) inverted
FlipBit(bits, i) ==
    [bits EXCEPT ![(i \div 8) + 1] =
        IF (@ \div (2 ^ (i % 8))) % 2 = 1 THEN @ - 2 ^ (i % 8) ELSE @ + 2 ^ (i % 8)]

IntKinds == {"Int8", "Int16", "Int32", "Int64", "Uint8", "Uint16", "Uint32", "Uint64"}
FloatKinds == {"Float32", "Float64"}

\* the sentinel the format reserves for a kind
Sentinel(kind) ==
    CASE kind = "Bool" -> <<0>>
      [] kind \in {"Int8", "Int16", "Int32", "Int64"} -> MaxSigned(Width(kind))
      [] kind = "String" -> <<>>
      [] OTHER -> AllOnes(Width(kind))

SampleBits(kind) ==
    CASE kind = "Bool" -> {<<0>>, <<1>>}
      [] kind = "String" -> {<<>>, <<0>>, <<97>>, Invalid_}
      [] kind \in IntKinds \cup FloatKinds ->
            {Sentinel(kind), Zeros(Width(kind)), AllOnes(Width(kind)),
             MaxSigned(Width(kind))}
            \cup {FlipBit(Sentinel(kind), i) : i \in 0..(8 * Width(kind) - 1)}
      [] OTHER -> {Zeros(8), AllOnes(8)}     \* no entry in invalidValues

ScalarKinds == InvalidKinds \cup {"Int", "Uint", "Map"}
ScalarStrs == {NoMethod, Text(T_Ok), Text(T_XInvalid), Text(Invalid_), Text(T_Invalids)}

ScalarVals ==
    UNION {{Scalar(k, b, s) : b \in SampleBits(k), s \in ScalarStrs} : k \in ScalarKinds}

U3 == Scalar("Uint8", <<3>>, NoMethod)
U255 == Scalar("Uint8", <<255>>, NoMethod)
E3 == Scalar("Uint8", <<3>>, Text(T_Ok))
E255 == Scalar("Uint8", <<255>>, Text(T_XInvalid))

TreeStrs == {NoMethod, Text(T_Ok), Text(T_XInvalid)}

\* the values found below the outermost one
Mid ==
    {U3, U255, E3, E255,
     Struct(<<Kid(N_A, U3)>>, NoMethod), Struct(<<Kid(N_b, U3)>>, NoMethod),
     Struct(<<Kid(N_A, U3)>>, Text(T_Ok)), Struct(<<Kid(N_A, U3)>>, Text(T_XInvalid)),
     NilPtr(NoMethod), NilPtr(Panics), PtrTo(U3, NoMethod),
     PtrTo(Struct(<<Kid(N_A, U3)>>, NoMethod), Text(T_Ok)), PtrTo(E3, Text(T_Ok)),
     Seqn("Slice", <<U3, U255>>, NoMethod), Seqn("Slice", <<>>, NoMethod),
     Seqn("Array", <<U3, U255>>, NoMethod), Seqn("Array", <<>>, NoMethod)}

FieldNames == {N_A, N_b, N_Eacute, N_eacute}
FieldPairs == {Kid(n, v) : n \in FieldNames, v \in Mid}

\* field lists of a Go struct: the names are distinct
FieldLists ==
    {<<>>} \cup UNION {{fs \in [1..n -> FieldPairs] :
                          \A i, j \in 1..n : i # j => fs[i].name # fs[j].name}
                       : n \in 1..MaxFields}

Structs ==
    {Struct(fs, NoMethod) : fs \in FieldLists}
    \cup {Struct(fs, s) : fs \in {f \in FieldLists : Len(f) <= 1},
                          s \in {Text(T_Ok), Text(T_XInvalid), Panics}}

\* the String of *T: that of T when T has one (value receiver), else of its
\* own (pointer receiver) or none
PtrStrs(e) == IF e.str.m # "none" THEN {e.str} ELSE TreeStrs

Ptrs ==
    {NilPtr(s) : s \in TreeStrs \cup {Panics}}
    \cup UNION {{PtrTo(e, s) : s \in PtrStrs(e)} : e \in {m \in Mid : m.kind # "Ptr"}}

\* the elements of a slice or array have one type
SameType(a, b) == a.kind = b.kind /\ ((a.str.m = "none") <=> (b.str.m = "none"))

ElemLists ==
    {<<>>} \cup UNION {{es \in [1..n -> Mid] : \A i \in 1..n : SameType(es[i], es[1])}
                       : n \in 1..MaxElems}

Seqs ==
    {Seqn(k, es, s) : k \in {"Slice", "Array"}, es \in ElemLists, s \in TreeStrs}

Values == ScalarVals \cup Mid \cup Structs \cup Ptrs \cup Seqs

-----------------------------------------------------------------------------
(* fit.FileType.  A tag is the bytes of its name.  First the tags of the
   switch, in the order of its cases *)

FileTypeActivity == <<65, 99, 116, 105, 118, 105, 116, 121>>
FileTypeDevice == <<68, 101, 118, 105, 99, 101>>
FileTypeSettings == <<83, 101, 116, 116, 105, 110, 103, 115>>
FileTypeSport == <<83, 112, 111, 114, 116>>
FileTypeWorkout == <<87, 111, 114, 107, 111, 117, 116>>
FileTypeCourse == <<67, 111, 117, 114, 115, 101>>
FileTypeSchedules == <<83, 99, 104, 101, 100, 117, 108, 101, 115>>
FileTypeWeight == <<87, 101, 105, 103, 104, 116>>
FileTypeTotals == <<84, 111, 116, 97, 108, 115>>
FileTypeGoals == <<71, 111, 97, 108, 115>>
FileTypeBloodPressure == <<66, 108, 111, 111, 100, 80, 114, 101, 115, 115, 117, 114, 101>>
FileTypeMonitoringA == <<77, 111, 110, 105, 116, 111, 114, 105, 110, 103, 65>>
FileTypeActivitySummary == <<65, 99, 116, 105, 118, 105, 116, 121, 83, 117, 109, 109, 97, 114, 121>>
FileTypeMonitoringDaily == <<77, 111, 110, 105, 116, 111, 114, 105, 110, 103, 68, 97, 105, 108, 121>>
FileTypeMonitoringB == <<77, 111, 110, 105, 116, 111, 114, 105, 110, 103, 66>>
FileTypeSegment == <<83, 101, 103, 109, 101, 110, 116>>
FileTypeSegmentList == <<83, 101, 103, 109, 101, 110, 116, 76, 105, 115, 116>>

\* tags the switch has no case for
FileTypeInvalid == <<73, 110, 118, 97, 108, 105, 100>>
FileTypeOther == <<70, 105, 108, 101, 84, 121, 112, 101, 40, 52, 48, 41>>

FileTypes ==
    {FileTypeActivity, FileTypeDevice, FileTypeSettings, FileTypeSport,
     FileTypeWorkout, FileTypeCourse, FileTypeSchedules, FileTypeWeight,
     FileTypeTotals, FileTypeGoals, FileTypeBloodPressure,
     FileTypeMonitoringA, FileTypeActivitySummary, FileTypeMonitoringDaily,
     FileTypeMonitoringB, FileTypeSegment, FileTypeSegmentList,
     FileTypeInvalid, FileTypeOther}

(* The accessors of fit.File, each the bytes of its method name; NoAccessor
   when none is called *)

Activity == <<65, 99, 116, 105, 118, 105, 116, 121>>
Device == <<68, 101, 118, 105, 99, 101>>
Settings == <<83, 101, 116, 116, 105, 110, 103, 115>>
Sport == <<83, 112, 111, 114, 116>>
Workout == <<87, 111, 114, 107, 111, 117, 116>>
Course == <<67, 111, 117, 114, 115, 101>>
Schedules == <<83, 99, 104, 101, 100, 117, 108, 101, 115>>
Weight == <<87, 101, 105, 103, 104, 116>>
Totals == <<84, 111, 116, 97, 108, 115>>
Goals == <<71, 111, 97, 108, 115>>
BloodPressure == <<66, 108, 111, 111, 100, 80, 114, 101, 115, 115, 117, 114, 101>>
MonitoringA == <<77, 111, 110, 105, 116, 111, 114, 105, 110, 103, 65>>
ActivitySummary == <<65, 99, 116, 105, 118, 105, 116, 121, 83, 117, 109, 109, 97, 114, 121>>
MonitoringDaily == <<77, 111, 110, 105, 116, 111, 114, 105, 110, 103, 68, 97, 105, 108, 121>>
MonitoringB == <<77, 111, 110, 105, 116, 111, 114, 105, 110, 103, 66>>
Segment == <<83, 101, 103, 109, 101, 110, 116>>
SegmentList == <<83, 101, 103, 109, 101, 110, 116, 76, 105, 115, 116>>
NoAccessor == <<>>

\* the switch with the accessors of the MonitoringA and MonitoringB cases
\* exchanged
getFileValueSwapped(t) ==
    CASE t = FileTypeActivity -> Activity
      [] t = FileTypeDevice -> Device
      [] t = FileTypeSettings -> Settings
      [] t = FileTypeSport -> Sport
      [] t = FileTypeWorkout -> Workout
      [] t = FileTypeCourse -> Course
      [] t = FileTypeSchedules -> Schedules
      [] t = FileTypeWeight -> Weight
      [] t = FileTypeTotals -> Totals
      [] t = FileTypeGoals -> Goals
      [] t = FileTypeBloodPressure -> BloodPressure
      [] t = FileTypeMonitoringA -> MonitoringB
      [] t = FileTypeActivitySummary -> ActivitySummary
      [] t = FileTypeMonitoringDaily -> MonitoringDaily
      [] t = FileTypeMonitoringB -> MonitoringA
      [] t = FileTypeSegment -> Segment
      [] t = FileTypeSegmentList -> SegmentList
      [] OTHER -> NoAccessor

\* the accessor the switch of getFileValue calls (first copy)
getFileValue(t) ==
    CASE t = FileTypeActivity -> Activity
      [] t = FileTypeDevice -> Device
      [] t = FileTypeSettings -> Settings
      [] t = FileTypeSport -> Sport
      [] t = FileTypeWorkout -> Workout
      [] t = FileTypeCourse -> Course
      [] t = FileTypeSchedules -> Schedules
      [] t = FileTypeWeight -> Weight
      [] t = FileTypeTotals -> Totals
      [] t = FileTypeGoals -> Goals
      [] t = FileTypeBloodPressure -> BloodPressure
      [] t = FileTypeMonitoringA -> MonitoringA
      [] t = FileTypeActivitySummary -> ActivitySummary
      [] t = FileTypeMonitoringDaily -> MonitoringDaily
      [] t = FileTypeMonitoringB -> MonitoringB
      [] t = FileTypeSegment -> Segment
      [] t = FileTypeSegmentList -> SegmentList
      [] OTHER -> NoAccessor

\* the accessor the switch in run calls (second copy)
runSwitch(t) ==
    CASE t = FileTypeActivity -> Activity
      [] t = FileTypeDevice -> Device
      [] t = FileTypeSettings -> Settings
      [] t = FileTypeSport -> Sport
      [] t = FileTypeWorkout -> Workout
      [] t = FileTypeCourse -> Course
      [] t = FileTypeSchedules -> Schedules
      [] t = FileTypeWeight -> Weight
      [] t = FileTypeTotals -> Totals
      [] t = FileTypeGoals -> Goals
      [] t = FileTypeBloodPressure -> BloodPressure
      [] t = FileTypeMonitoringA -> MonitoringA
      [] t = FileTypeActivitySummary -> ActivitySummary
      [] t = FileTypeMonitoringDaily -> MonitoringDaily
      [] t = FileTypeMonitoringB -> MonitoringB
      [] t = FileTypeSegment -> Segment
      [] t = FileTypeSegmentList -> SegmentList
      [] OTHER -> NoAccessor

selector(c, t) == IF c = 1 THEN getFileValue(t) ELSE runSwitch(t)

-----------------------------------------------------------------------------
(* Errors: an error is the bytes of its message, nil the empty sequence *)

Nil == <<>>

\* "Expected a single argument: FILE"
ArgumentError ==
    <<69, 120, 112, 101, 99, 116, 101, 100, 32, 97, 32, 115, 105, 110, 103, 108, 101, 32, 97, 114, 103, 117, 109, 101, 110, 116, 58,
      32, 70, 73, 76, 69>>
\* what os.Open returns, e.g. "open a.fit: no such file or directory"
OpenError == <<111, 112, 101, 110, 32, 97, 46, 102, 105, 116, 58, 32, 110, 111, 32, 115, 117, 99, 104, 32, 102, 105, 108, 101>>
\* what fit.Decode returns
DecodeError == <<100, 101, 99, 111, 100, 101, 32, 101, 114, 114, 111, 114>>
\* what an accessor returns
AccessorError == <<97, 99, 99, 101, 115, 115, 111, 114, 32, 101, 114, 114, 111, 114>>
Quote == <<39>>
UnknownPrefix1 == <<117, 110, 107, 110, 111, 119, 110, 32, 102, 105, 108, 101, 116, 121, 112, 101, 32, 39>>
GetFileFailed == <<103, 101, 116, 32, 102, 105, 108, 101, 32, 102, 97, 105, 108, 101, 100, 58, 32>>
UnknownPrefix2 == GetFileFailed \o <<85, 110, 107, 110, 111, 119, 110, 32, 102, 105, 108, 101, 116, 121, 112, 101, 32, 39>>

\* fmt.Errorf("unknown filetype '%v'", t) and
\* fmt.Errorf("get file failed: Unknown filetype '%v'", t)
unknownError(c, t) ==
    IF c = 1 THEN UnknownPrefix1 \o t \o Quote ELSE UnknownPrefix2 \o t \o Quote

\* the error of a failed accessor: returned as it is by the first copy,
\* fmt.Errorf("get file failed: %v", err) in the second
extractionError(c, e) == IF c = 1 THEN e ELSE GetFileFailed \o e

\* fmt.Println(err)
Println(e) == Line(0, "%v\n", <<>>, [kind |-> "error", bytes |-> e])

-----------------------------------------------------------------------------
(* The decoded file *)

F_Header == <<72, 101, 97, 100, 101, 114>>
F_CRC == <<67, 82, 67>>
F_FileId == <<70, 105, 108, 101, 73, 100>>
F_FileCreator == <<70, 105, 108, 101, 67, 114, 101, 97, 116, 111, 114>>
F_TimestampCorrelation == <<84, 105, 109, 101, 115, 116, 97, 109, 112, 67, 111, 114, 114, 101, 108, 97, 116, 105, 111, 110>>
F_UnknownMessages == <<85, 110, 107, 110, 111, 119, 110, 77, 101, 115, 115, 97, 103, 101, 115>>
F_UnknownFields == <<85, 110, 107, 110, 111, 119, 110, 70, 105, 101, 108, 100, 115>>
F_Size == <<83, 105, 122, 101>>
F_Type == <<84, 121, 112, 101>>
F_Records == <<82, 101, 99, 111, 114, 100, 115>>
F_activity == <<97, 99, 116, 105, 118, 105, 116, 121>>      \* one of the unexported fields
S_FileCRC == <<70, 105, 108, 101, 32, 67, 82, 67>>
FileSuffix == <<70, 105, 108, 101>>
FileName == <<97, 46, 102, 105, 116>>          \* flag.Args()[0]

HeaderValue == Struct(<<Kid(F_Size, Scalar("Uint8", <<14>>, NoMethod))>>, NoMethod)

\* FileId.Type is the tag; its String method gives the name of the tag
FileIdValue(t) == Struct(<<Kid(F_Type, Scalar("Uint8", <<0>>, Text(t)))>>, NoMethod)

\* the fit.File struct: the exported fields and one of the unexported ones
File(t, crc, creator, unknown, data) ==
    Struct(<<Kid(F_Header, HeaderValue),
             Kid(F_CRC, Scalar("Uint16", crc, NoMethod)),
             Kid(F_FileId, FileIdValue(t)),
             Kid(F_FileCreator, creator),
             Kid(F_TimestampCorrelation, NilPtr(NoMethod)),
             Kid(F_UnknownMessages, unknown),
             Kid(F_UnknownFields, Seqn("Slice", <<>>, NoMethod)),
             Kid(F_activity, PtrTo(data, NoMethod))>>, NoMethod)

\* the typed sub-structure an accessor returns
BodyValues ==
    {Struct(<<>>, NoMethod),
     Struct(<<Kid(F_Records,
                  Seqn("Slice", <<PtrTo(Struct(<<Kid(F_Size, U3)>>, NoMethod), NoMethod),
                                  PtrTo(Struct(<<Kid(F_Size, U255)>>, NoMethod), NoMethod)>>,
                       NoMethod))>>, NoMethod)}

\* what fit.Decode can return on success: the tag, whether the accessor of
\* the tag accepts the content, the File struct and the sub-structure
DecodedFiles ==
    {[type |-> t, ok |-> k, file |-> File(t, crc, creator, unknown, data), data |-> data] :
        t \in FileTypes, k \in BOOLEAN,
        crc \in {<<255, 255>>, <<52, 18>>},
        creator \in {NilPtr(NoMethod), PtrTo(HeaderValue, NoMethod)},
        unknown \in {Seqn("Slice", <<>>, NoMethod), Seqn("Slice", <<HeaderValue>>, NoMethod)},
        data \in BodyValues}

\* fitf.Header, fitf.CRC, ...: the field of the struct with that name
Field(v, n) == v.kids[CHOOSE i \in 1..Len(v.kids) : v.kids[i].name = n].val

\* only the first of the sections is printed
metaDumpHeaderOnly(c, f) ==
    IF c = 1 THEN printIndent(0, "%s:\n", FileName, ArgNone)
    ELSE dumpRecursive2(Field(f, F_Header), F_Header, 0)

\* first copy: dumpRecursive(reflect.ValueOf(*fitf), flag.Args()[0], 0)
metaDump1(f) == dumpRecursive1(f, FileName, 0)

\* second copy: seven fields, one call each
metaDump2(f) ==
    Cat(dumpRecursive2(Field(f, F_Header), F_Header, 0),
    Cat(dumpRecursive2(Field(f, F_CRC), S_FileCRC, 0),
    Cat(dumpRecursive2(Field(f, F_FileId), F_FileId, 0),
    Cat(dumpRecursive2(Field(f, F_FileCreator), F_FileCreator, 0),
    Cat(dumpRecursive2(Field(f, F_TimestampCorrelation), F_TimestampCorrelation, 0),
    Cat(dumpRecursive2(Field(f, F_UnknownMessages), F_UnknownMessages, 0),
        dumpRecursive2(Field(f, F_UnknownFields), F_UnknownFields, 0)))))))

\* the dump of the top-level metadata
metaDump(c, f) == IF c = 1 THEN metaDump1(f) ELSE metaDump2(f)

\* body.Type().Name(): the accessor Activity returns a *fit.ActivityFile
typeName(acc) == acc \o FileSuffix

\* dumpRecursive(body, body.Type().Name(), 0)
bodyDump(c, acc, data) == dumpRecursive(c, data, typeName(acc), 0)

NoFile == [type |-> <<>>, ok |-> FALSE, file |-> ZeroValue, data |-> ZeroValue]

-----------------------------------------------------------------------------
(* The printer run on one value *)

IdleRun ==
    /\ pc = "idle" /\ nargs = 0 /\ handle = "none" /\ closes = 0
    /\ staleUse = FALSE /\ fitf = NoFile /\ body = ZeroValue /\ calls = <<>>
    /\ err = Nil /\ ran = <<>> /\ stdout = <<>> /\ exitCode = -1

InitPrinter ==
    /\ variant \in {1, 2}
    /\ val \in Values
    /\ name = N_A
    /\ level \in 0..MaxLevel
    /\ op = "none"
    /\ out = <<>>
    /\ IdleRun

\* the values that reach dumpField: in the first copy every value with a
\* String method and every kind without a case, in the second the latter
ReachesDumpField(c, v) ==
    \/ v.kind \notin {"Struct", "Ptr", "Slice"}
    \/ (c = 1 /\ v.str.m # "none")

CallDumpRecursive ==
    /\ op = "none"
    /\ op' = "dumpRecursive"
    /\ out' = dumpRecursive(variant, val, name, level)
    /\ UNCHANGED <<variant, val, name, level>>
    /\ UNCHANGED runVars

CallDumpField ==
    /\ op = "none"
    /\ ReachesDumpField(variant, val)
    /\ op' = "dumpField"
    /\ out' = dumpField(val, name, level)
    /\ UNCHANGED <<variant, val, name, level>>
    /\ UNCHANGED runVars

NextPrinter == CallDumpRecursive \/ CallDumpField

SpecPrinter == InitPrinter /\ [][NextPrinter]_vars

-----------------------------------------------------------------------------
(* main and run *)

IdlePrinter ==
    /\ val = ZeroValue /\ name = <<>> /\ level = 0 /\ op = "idle" /\ out = <<>>

InitRun ==
    /\ variant \in {1, 2}
    /\ nargs \in 0..MaxArgs
    /\ pc = "main"
    /\ handle = "none" /\ closes = 0 /\ staleUse = FALSE
    /\ fitf = NoFile /\ body = ZeroValue /\ calls = <<>>
    /\ err = Nil /\ ran = <<>> /\ stdout = <<>> /\ exitCode = -1
    /\ IdlePrinter

\* no Close call is deferred
deferredForgotten(h) == 0

\* defer f.Close(): the Close calls pending when run returns
deferredCloses(h) == IF h = "open" THEN 1 ELSE 0

\* run returns e: the deferred calls run
Return(e) ==
    /\ err' = e
    /\ pc' = "returned"
    /\ closes' = closes + deferredCloses(handle)
    /\ handle' = IF deferredCloses(handle) > 0 THEN "closed" ELSE handle

\* a panic unwinds run (the deferred calls run) and ends the process
Panic ==
    /\ pc' = "exited"
    /\ exitCode' = 2
    /\ closes' = closes + deferredCloses(handle)
    /\ handle' = IF deferredCloses(handle) > 0 THEN "closed" ELSE handle
    /\ UNCHANGED err

\* if flag.NArg() != 1
CheckArgs ==
    /\ pc = "main"
    /\ ran' = Append(ran, "args")
    /\ IF nargs # 1
       THEN Return(ArgumentError)
       ELSE /\ pc' = "open"
            /\ UNCHANGED <<err, closes, handle>>
    /\ UNCHANGED <<variant, nargs, staleUse, fitf, body, calls, stdout, exitCode>>
    /\ UNCHANGED printerVars

\* f, err := os.Open(flag.Args()[0]); defer f.Close()
Open ==
    /\ pc = "open"
    /\ ran' = Append(ran, "open")
    /\ \E ok \in BOOLEAN :
         IF ok
         THEN /\ handle' = "open"
              /\ pc' = "decode"
              /\ UNCHANGED <<err, closes>>
         ELSE Return(OpenError)
    /\ UNCHANGED <<variant, nargs, staleUse, fitf, body, calls, stdout, exitCode>>
    /\ UNCHANGED printerVars

\* fitf, err := fit.Decode(f, fit.WithUnknownMessages())
Decode ==
    /\ pc = "decode"
    /\ ran' = Append(ran, "decode")
    /\ staleUse' = (staleUse \/ handle # "open")
    /\ \/ /\ Return(DecodeError)
          /\ UNCHANGED fitf
       \/ \E d \in DecodedFiles :
            /\ fitf' = d
            /\ pc' = "meta"
            /\ UNCHANGED <<err, closes, handle>>
    /\ UNCHANGED <<variant, nargs, body, calls, stdout, exitCode>>
    /\ UNCHANGED printerVars

\* the dump of the top-level metadata
DumpMeta ==
    /\ pc = "meta"
    /\ ran' = Append(ran, "meta")
    /\ stdout' = stdout \o metaDump(variant, fitf.file)
    /\ IF Panicked(metaDump(variant, fitf.file))
       THEN Panic
       ELSE /\ pc' = "select"
            /\ UNCHANGED <<err, closes, handle, exitCode>>
    /\ UNCHANGED <<variant, nargs, staleUse, fitf, body, calls>>
    /\ UNCHANGED printerVars

\* the selector: getFileValue (first copy), the switch in run (second copy)
Select ==
    /\ pc = "select"
    /\ ran' = Append(ran, "select")
    /\ LET acc == selector(variant, fitf.type) IN
         IF acc = NoAccessor
         THEN /\ Return(unknownError(variant, fitf.type))
              /\ UNCHANGED <<calls, body>>
         ELSE /\ calls' = Append(calls, acc)
              /\ IF fitf.ok
                 THEN /\ body' = fitf.data
                      /\ pc' = "body"
                      /\ UNCHANGED <<err, closes, handle>>
                 ELSE /\ Return(extractionError(variant, AccessorError))
                      /\ UNCHANGED body
    /\ UNCHANGED <<variant, nargs, staleUse, fitf, stdout, exitCode>>
    /\ UNCHANGED printerVars

\* dumpRecursive(body, body.Type().Name(), 0); return nil
DumpBody ==
    /\ pc = "body"
    /\ ran' = Append(ran, "body")
    /\ stdout' = stdout \o bodyDump(variant, calls[Len(calls)], body)
    /\ IF Panicked(bodyDump(variant, calls[Len(calls)], body))
       THEN Panic
       ELSE /\ Return(Nil)
            /\ UNCHANGED exitCode
    /\ UNCHANGED <<variant, nargs, staleUse, fitf, body, calls>>
    /\ UNCHANGED printerVars

\* os.Exit(0) whatever run returned
exitCodeZero(e) == 0

\* the argument main gives os.Exit
exitCodeOf(e) == IF e # Nil THEN 1 ELSE 0

\* err := run(); if err != nil { fmt.Println(err); os.Exit(1) }; os.Exit(0)
Exit ==
    /\ pc = "returned"
    /\ stdout' = IF err # Nil THEN Append(stdout, Println(err)) ELSE stdout
    /\ exitCode' = exitCodeOf(err)
    /\ pc' = "exited"
    /\ UNCHANGED <<variant, nargs, handle, closes, staleUse, fitf, body, calls, err, ran>>
    /\ UNCHANGED printerVars

Next == CheckArgs \/ Open \/ Decode \/ DumpMeta \/ Select \/ DumpBody \/ Exit

Spec == InitRun /\ [][Next]_vars

-----------------------------------------------------------------------------
(* Properties of the run (specification Spec) *)

Last(s) == s[Len(s)]
IsPrefix(a, b) == Len(a) <= Len(b) /\ SubSeq(b, 1, Len(a)) = a
Has(s, x) == \E i \in 1..Len(s) : s[i] = x

Stages == <<"args", "open", "decode", "meta", "select", "body">>

\* the accessor methods of fit.File
AccessorNames ==
    {Activity, Device, Settings, Sport, Workout, Course, Schedules, Weight,
     Totals, Goals, BloodPressure, MonitoringA, ActivitySummary,
     MonitoringDaily, MonitoringB, Segment, SegmentList}

\* "... nknown filetype '<tag>'"
IsUnknownFileTypeError(e, t) ==
    HasSuffix(e, <<110, 107, 110, 111, 119, 110, 32, 102, 105, 108, 101,
                   116, 121, 112, 101, 32, 39>> \o t \o <<39>>)

Dispatch ==
    /\ ~Has(ran, "select") => calls = <<>>
    /\ Has(ran, "select") =>
          IF fitf.type \in AccessorNames
          THEN calls = <<fitf.type>>
          ELSE /\ calls = <<>>
               /\ IsUnknownFileTypeError(err, fitf.type)
               /\ pc \in {"returned", "exited"}

\* C1: the selector is a one-to-one mapping from tag to accessor: for a tag
\* with an accessor it calls exactly that accessor, for any other tag it
\* calls none and fails with the unknown-file-type error
C1_Dispatch == Dispatch

C1_Witness ==
    /\ Has(ran, "select") /\ fitf.type = FileTypeSegmentList
    /\ calls = <<SegmentList>> /\ pc = "body"

\* why the run failed, by the last stage it executed
FailureMatchesStage ==
    CASE Last(ran) = "args" -> nargs # 1 /\ err = ArgumentError
      [] Last(ran) = "open" -> handle = "none" /\ err = OpenError
      [] Last(ran) = "decode" -> fitf = NoFile /\ err = DecodeError
      [] Last(ran) = "select" ->
            \/ fitf.type \notin AccessorNames /\ IsUnknownFileTypeError(err, fitf.type)
            \/ fitf.type \in AccessorNames /\ ~fitf.ok /\ HasSuffix(err, AccessorError)
      [] OTHER -> FALSE

Outcome ==
    /\ IsPrefix(ran, Stages)
    /\ exitCode \in {-1, 0, 1}
    /\ (exitCode # -1) <=> (pc = "exited")
    /\ err # Nil => ~Has(ran, "body") /\ FailureMatchesStage
    /\ pc = "exited" =>
          \/ /\ exitCode = 0 /\ err = Nil /\ ran = Stages
             /\ nargs = 1 /\ fitf.ok /\ fitf.type \in AccessorNames
             /\ \A i \in 1..Len(stdout) : stdout[i].arg.kind # "error"
          \/ /\ exitCode = 1 /\ err # Nil
             /\ stdout # <<>> /\ Last(stdout) = Println(err)
             /\ \A i \in 1..(Len(stdout) - 1) : stdout[i].arg.kind # "error"

MetaPrinted(s) ==
    LET lv == IF variant = 1 THEN 1 ELSE 0
        crc == Field(fitf.file, F_CRC)
        unknown == Field(fitf.file, F_UnknownMessages)
    IN  /\ \E i, j \in 1..Len(s) :
              /\ i < j
              /\ s[i] = Line(lv, "%s:\n", F_Header, ArgNone)
              /\ s[j] = Line(lv, "%s:\n", F_FileId, ArgNone)
        /\ (crc.bits # <<255, 255>>) <=>
              Has(s, Line(lv, "%s: %v\n", IF variant = 1 THEN F_CRC ELSE S_FileCRC,
                          [kind |-> "Uint16", bytes |-> crc.bits]))
        /\ (Len(unknown.kids) > 0) <=>
              Has(s, Line(lv, "%s (%d elems):\n", F_UnknownMessages,
                          [kind |-> "int", bytes |-> <<Len(unknown.kids)>>]))
        /\ \A i \in 1..Len(s) : s[i].arg.kind # "error"

StagedOutput ==
    /\ pc = "select" => MetaPrinted(stdout)
    /\ (pc = "exited" /\ err # Nil /\ Last(ran) \in {"args", "open", "decode"})
          => stdout = <<Println(err)>>
    /\ (pc = "exited" /\ err # Nil /\ Last(ran) = "select")
          => /\ MetaPrinted(SubSeq(stdout, 1, Len(stdout) - 1))
             /\ Last(stdout) = Println(err)

\* C3: the metadata section is on standard output before the selector
\* runs; a failure of the selector prints its error after that section; a
\* failure before the metadata dump leaves the error message as the only
\* output; nothing printed is ever taken back
C3_Staged == []StagedOutput /\ [][IsPrefix(stdout, stdout')]_vars

C3_Witness ==
    /\ pc = "exited" /\ exitCode = 1 /\ Last(ran) = "select"
    /\ fitf.type = FileTypeInvalid /\ Len(stdout) > 2

HandleReleased ==
    /\ closes \in {0, 1}
    /\ ~staleUse
    /\ (handle = "closed") <=> (closes = 1)
    /\ pc \in {"returned", "exited"} =>
          IF Has(ran, "decode") THEN handle = "closed" /\ closes = 1
          ELSE handle = "none" /\ closes = 0

\* C4: a handle that was opened is closed exactly once by the time run has
\* returned, whichever way run ends; without a successful open nothing is
\* closed; the handle is never read after it was closed
C4_ClosedOnce == []HandleReleased /\ [][closes = 1 => closes' = 1]_vars

C4_Witness ==
    /\ pc = "exited" /\ Last(ran) = "decode" /\ err = DecodeError
    /\ handle = "closed" /\ closes = 1

-----------------------------------------------------------------------------
(* Properties of the printer (specification SpecPrinter) *)

Called == op \in {"dumpRecursive", "dumpField"}

\* the one line "<name>: <value>" with the literal value
LiteralLine(v, n, l) ==
    /\ Len(out) = 1
    /\ out[1].level = l /\ out[1].name = n
    /\ out[1].format \in {"%s: %v\n", "%s: %+v\n"}
    /\ out[1].arg = [kind |-> v.kind, bytes |-> v.bits]

SentinelRule ==
    IF val.bits = Sentinel(val.kind) THEN out = <<>>
    ELSE LiteralLine(val, name, level)

C5Kinds == {"Bool", "String"} \cup IntKinds

\* C5 as stated: a field of a boolean, integer or string kind is printed
\* as "<name>: <value>" unless its value is the sentinel of the kind, and
\* then it is not printed
C5_Sentinels ==
    (Called /\ val.kind \in C5Kinds /\ val.kids = <<>>) => SentinelRule

\* C5 amended: ... a field of such a kind whose type has no String method
\* ...
C5_SentinelsNoStringer ==
    (Called /\ val.kind \in C5Kinds /\ val.kids = <<>> /\ val.str.m = "none")
        => SentinelRule

C5_Witness ==
    /\ Called /\ val = Scalar("Int64", FlipBit(MaxSigned(8), 63), NoMethod)
    /\ Len(out) = 1 /\ out[1].arg.bytes = AllOnes(8)

\* C6: a float32 or float64 field with the all-ones bit pattern is not
\* printed, a float field with any other bit pattern is
C6_FloatSentinels ==
    (Called /\ val.kind \in FloatKinds /\ val.kids = <<>> /\ val.str.m = "none")
        => SentinelRule

\* C7: a value with a String method whose text ends in "Invalid" produces
\* no line, whatever its kind; with any other text it is printed with that
\* text
C7_InvalidSuffix ==
    (op = "dumpRecursive" /\ val.str.m = "text") =>
        IF HasSuffix(val.str.text, Invalid_) THEN out = <<>>
        ELSE out = <<Line(level, "%s: %s\n", name, ArgStr(val.str.text))>>

\* C8: a nil pointer produces no line; a non-nil pointer produces the lines
\* of its pointee under the same name at the same indent
C8_PointerTransparent ==
    (op = "dumpRecursive" /\ val.kind = "Ptr") =>
        IF val.kids = <<>> THEN out = <<>>
        ELSE out = dumpRecursive(variant, val.kids[1].val, name, level)

\* the subtrees of the elements from the i-th on, each under "[index]";
\* deref: the element is put through reflect.Indirect first
RECURSIVE ElemSubtrees(_, _, _, _)
ElemSubtrees(kids, i, l, deref) ==
    IF i > Len(kids) THEN <<>>
    ELSE Cat(dumpRecursive(variant,
                           IF deref THEN Indirect(kids[i].val) ELSE kids[i].val,
                           <<91>> \o Itoa(i - 1) \o <<93>>, l),
             ElemSubtrees(kids, i + 1, l, deref))

SeqLines(deref) ==
    IF Len(val.kids) = 0 THEN <<>>
    ELSE Cat(<<Line(level, "%s (%d elems):\n", name, ArgInt(Len(val.kids)))>>,
             ElemSubtrees(val.kids, 1, level + 1, deref))

RECURSIVE UpperFieldSubtrees(_, _, _)
UpperFieldSubtrees(kids, i, l) ==
    IF i > Len(kids) THEN <<>>
    ELSE IF IsUpper(DecodeRune(kids[i].name).r)
         THEN Cat(dumpRecursive(variant, kids[i].val, kids[i].name, l),
                  UpperFieldSubtrees(kids, i + 1, l))
         ELSE UpperFieldSubtrees(kids, i + 1, l)

\* C10: a struct is printed as the header "<name>:" followed by the
\* subtrees, at indent+1 and in declaration order, of exactly the fields
\* whose name starts with an upper-case letter (and, in the first copy, the
\* closing "---")
C10_ExportedOnly ==
    (op = "dumpRecursive" /\ val.kind = "Struct" /\ val.str.m = "none") =>
        LET walked == Cat(<<Line(level, "%s:\n", name, ArgNone)>>,
                          UpperFieldSubtrees(val.kids, 1, level + 1))
        IN  out = IF variant = 1
                  THEN Cat(walked, <<Line(level, "---\n", <<>>, ArgNone)>>)
                  ELSE walked

====
